---- MODULE Spec2Model ----
(***************************************************************************)
(* A model of nemesis/event_generation/detector.py: the Module / Detector  *)
(* containers, the geometry builders make_line and make_triang, the        *)
(* samplers, generate_noise and trigger.                                   *)
(*                                                                         *)
(* Real numbers are modelled exactly: a rational is a normalised record    *)
(* [n, d] with d > 0, an angle is the point [sin, cos] it marks on the     *)
(* unit circle, and a square root that is not rational (the height of the  *)
(* triangle in make_triang, a norm) is the surd [c, q] standing for        *)
(* c * sqrt(q).  Floating-point rounding is not modelled.                  *)
(*                                                                         *)
(* A numpy RandomState is modelled by its position in its stream (the      *)
(* number of values it has delivered); the value of a draw is any value of *)
(* a small sample of the distribution's support.                           *)
(***************************************************************************)
EXTENDS Integers, Sequences, FiniteSets

VARIABLES
    fn,           \* the function called last ("none" before any call)
    args,         \* its arguments
    ret,          \* its outcome: [kind |-> "pending" | "ok" | "raise", val |-> ...]
    draws,        \* the values the call drew from its random source, in order
    first_pos,    \* the stream position at which the call started to draw
    rng,          \* position of the caller's RandomState
    default_rng,  \* position of each function's default RandomState
    ncalls        \* number of calls made (history specification only)

vars == <<fn, args, ret, draws, first_pos, rng, default_rng, ncalls>>

(***************************************************************************)
(* Bounds of the model.                                                    *)
(***************************************************************************)
MaxModules == 3     \* rows of event_times
MaxDetModules == 2  \* modules given to Detector
MaxHits == 2        \* hits of one module
MaxThresh == 2      \* largest threshold given to trigger
MaxCoord == 1       \* module coordinates range over -MaxCoord-1 .. MaxCoord
MaxNz == 3          \* modules of a line
MaxDistZ == 2       \* largest dist_z
MaxN == 2           \* points asked from a sampler
MaxCalls == 2       \* calls of the history specification

(***************************************************************************)
(* Exact rational arithmetic.                                              *)
(***************************************************************************)
Abs(i) == IF i < 0 THEN -i ELSE i

RECURSIVE Gcd(_, _)
Gcd(a, b) == IF b = 0 THEN a ELSE Gcd(b, a % b)

\* The rational n/d, normalised (d # 0).
R(n, d) ==
    LET g == Gcd(Abs(n), Abs(d))
        s == IF d < 0 THEN -1 ELSE 1
    IN  [n |-> (s * n) \div g, d |-> (s * d) \div g]

Int2R(i) == [n |-> i, d |-> 1]
RAdd(p, q) == R(p.n * q.d + q.n * p.d, p.d * q.d)
RNeg(p) == [n |-> -p.n, d |-> p.d]
RSub(p, q) == RAdd(p, RNeg(q))
RMul(p, q) == R(p.n * q.n, p.d * q.d)
RDiv(p, q) == R(p.n * q.d, p.d * q.n)
RLe(p, q) == p.n * q.d <= q.n * p.d
RLt(p, q) == p.n * q.d < q.n * p.d
RAbs(p) == [n |-> Abs(p.n), d |-> p.d]
RSq(p) == RMul(p, p)
RZero == Int2R(0)
ROne == Int2R(1)
RHalf(p) == RDiv(p, Int2R(2))

\* The larger of two rationals, and the largest of a non-empty sequence.
RMax2(p, q) == IF RLe(p, q) THEN q ELSE p

RECURSIVE RMaxSeq(_)
RMaxSeq(s) == IF Len(s) = 1 THEN s[1] ELSE RMax2(s[1], RMaxSeq(Tail(s)))

\* The sum of a sequence of rationals.
RECURSIVE RSumSeq(_)
RSumSeq(s) == IF s = <<>> THEN RZero ELSE RAdd(s[1], RSumSeq(Tail(s)))

IsSquare(k) == \E r \in 0..k : r * r = k
ISqrt(k) == CHOOSE r \in 0..k : r * r = k

\* The real number c * sqrt(q), for rationals c and q >= 0.
Surd(c, q) == [c |-> c, q |-> q]
IsSurd(v) == "q" \in DOMAIN v

\* np.sqrt of a rational p >= 0: a rational when p is the square of one.
np_sqrt(p) ==
    IF IsSquare(p.n) /\ IsSquare(p.d)
    THEN [n |-> ISqrt(p.n), d |-> ISqrt(p.d)]
    ELSE Surd(ROne, p)

\* Arithmetic of a real (a rational or a surd) with a rational.
Scale(v, r) == IF IsSurd(v) THEN Surd(RMul(v.c, r), v.q) ELSE RMul(v, r)
Over(v, r) == IF IsSurd(v) THEN Surd(RDiv(v.c, r), v.q) ELSE RDiv(v, r)
Neg(v) == IF IsSurd(v) THEN Surd(RNeg(v.c), v.q) ELSE RNeg(v)
Sq(v) == IF IsSurd(v) THEN RMul(RSq(v.c), v.q) ELSE RSq(v)

Ok(v) == [kind |-> "ok", val |-> v]
Raise(e) == [kind |-> "raise", val |-> e]
Pending == [kind |-> "pending", val |-> "none"]

(***************************************************************************)
(* Random sources.                                                         *)
(***************************************************************************)
DefaultFns ==
    {"make_triang", "sample_cylinder_surface", "sample_cylinder_volume",
     "sample_direction", "generate_noise"}

\* The position of the random source a call uses: the caller's RandomState, or,
\* when the argument is omitted, the function's default one, which Python
\* evaluates once, when the def statement runs.
RngPos(f, which) == IF which = "default" THEN default_rng[f] ELSE rng

\* The call of f has read k values from its source, which has advanced.
UseRngFresh(f, which, k) ==
    /\ first_pos' = IF which = "default" THEN 0 ELSE rng
    /\ rng' = IF which = "default" THEN rng ELSE rng + k
    /\ default_rng' = default_rng

UseRng(f, which, k) ==
    /\ first_pos' = RngPos(f, which)
    /\ rng' = IF which = "default" THEN rng ELSE rng + k
    /\ default_rng' =
         IF which = "default" THEN [default_rng EXCEPT ![f] = @ + k]
         ELSE default_rng

NoRng == UNCHANGED <<rng, default_rng>> /\ first_pos' = 0

\* The state after import: nothing called, every default source at its seed.
Fresh ==
    /\ draws = <<>>
    /\ first_pos = 0
    /\ rng = 0
    /\ default_rng = [f \in DefaultFns |-> 0]
    /\ ncalls = 0

(***************************************************************************)
(* trigger                                                                 *)
(***************************************************************************)
\* ak.count(event_times, axis=1): the number of hits of each module.
ak_count(event_times) == [i \in 1..Len(event_times) |-> Len(event_times[i])]

\* ak.sum of a boolean array: the number of true entries.
ak_sum(flags) == Cardinality({i \in 1..Len(flags) : flags[i]})

trigger_at_least(det, event_times, mod_thresh, phot_thres) ==
    LET hits_per_module == ak_count(event_times)
    IN  ak_sum([i \in 1..Len(hits_per_module) |-> hits_per_module[i] > phot_thres])
            >= mod_thresh

trigger(det, event_times, mod_thresh, phot_thres) ==
    LET hits_per_module == ak_count(event_times)
    IN  IF ak_sum([i \in 1..Len(hits_per_module) |-> hits_per_module[i] > phot_thres])
               > mod_thresh
        THEN TRUE
        ELSE FALSE

\* A row of k hit times.
Row(k) == [j \in 1..k |-> RZero]

EventTimes ==
    UNION {[1..m -> {Row(k) : k \in 0..MaxHits}] : m \in 1..MaxModules}

TriggerArgs ==
    [det : {"detA", "detB"}, event_times : EventTimes,
     mod_thresh : -1..MaxThresh, phot_thres : -1..MaxThresh]

Do_trigger(a) ==
    /\ fn' = "trigger"
    /\ args' = a
    /\ ret' = Ok(trigger(a.det, a.event_times, a.mod_thresh, a.phot_thres))
    /\ draws' = <<>>
    /\ NoRng

Call_trigger == fn = "trigger" /\ ret = Pending /\ Do_trigger(args) /\ UNCHANGED ncalls

InitTrigger == fn = "trigger" /\ args \in TriggerArgs /\ ret = Pending /\ Fresh

NextTrigger == Call_trigger

SpecTrigger == InitTrigger /\ [][NextTrigger]_vars

\* The number of modules of the call with more than phot_thres hits.
Qualifying ==
    Cardinality({i \in 1..Len(args.event_times) :
                    Len(args.event_times[i]) > args.phot_thres})

TriggerDone == fn = "trigger" /\ ret.kind = "ok"

C2_TriggerAtLeast ==
    (TriggerDone /\ Qualifying >= args.mod_thresh) => ret.val = TRUE

(***************************************************************************)
(* Module and Detector                                                     *)
(***************************************************************************)
Module(pos, key, noise_rate, efficiency) ==
    [pos |-> pos, key |-> key, noise_rate |-> noise_rate, efficiency |-> efficiency]

\* np.linalg.norm of one row of coordinates.
norm(v) == np_sqrt(RSumSeq([i \in 1..Len(v) |-> Sq(v[i])]))

\* .max() of a non-empty array of norms (non-negative reals compare as their squares).
NormMax(s) ==
    CHOOSE v \in {s[i] : i \in 1..Len(s)} :
        \A i \in 1..Len(s) : RLe(Sq(s[i]), Sq(v))

outer_cylinder_of(module_coords) ==
    <<NormMax([i \in 1..Len(module_coords) |-> norm(SubSeq(module_coords[i], 1, 2))]),
      RMul(Int2R(2), RAbs(RMaxSeq([i \in 1..Len(module_coords) |-> module_coords[i][3]])))>>

\* Detector.__init__; np.vstack of an empty list raises ValueError.
Detector_init(modules) ==
    IF modules = <<>>
    THEN Raise("ValueError")
    ELSE LET module_coords == [i \in 1..Len(modules) |-> modules[i].pos]
         IN  Ok([modules |-> modules,
                 module_coords |-> module_coords,
                 module_coords_ak |-> module_coords,
                 module_efficiencies |-> [i \in 1..Len(modules) |-> modules[i].efficiency],
                 module_noise_rates |-> [i \in 1..Len(modules) |-> modules[i].noise_rate],
                 outer_radius |->
                     NormMax([i \in 1..Len(module_coords) |-> norm(module_coords[i])]),
                 outer_cylinder |-> outer_cylinder_of(module_coords),
                 n_modules |-> Len(modules)])

\* Module positions of the model: a few (x, y) and every z of the range.
Positions ==
    {<<Int2R(xy[1]), Int2R(xy[2]), Int2R(z)>> :
        xy \in {<<0, 0>>, <<1, 0>>, <<0, -1>>, <<1, 1>>}, z \in (-MaxCoord - 1)..MaxCoord}

ModuleLists(ms) ==
    UNION {{[i \in 1..m |-> Module(ps[i], <<0, i - 1>>, ROne, R(1, 5))] :
                ps \in [1..m -> Positions]} : m \in ms}

Do_Detector(a) ==
    /\ fn' = "Detector"
    /\ args' = a
    /\ ret' = Detector_init(a.modules)
    /\ draws' = <<>>
    /\ NoRng

Call_Detector == fn = "Detector" /\ ret = Pending /\ Do_Detector(args) /\ UNCHANGED ncalls

InitDetector == fn = "Detector" /\ args \in [modules : ModuleLists(0..MaxDetModules)] /\ ret = Pending /\ Fresh

NextDetector == Call_Detector

SpecDetector == InitDetector /\ [][NextDetector]_vars

\* C3: the outer cylinder (radius, height), centred on the origin with its axis
\* along z, contains every module: sqrt(x^2+y^2) <= radius and |z| <= height/2.
C3_CylinderContains ==
    (fn = "Detector" /\ ret.kind = "ok") =>
        \A i \in 1..Len(args.modules) :
            LET p == args.modules[i].pos
            IN  /\ RLe(RAdd(Sq(p[1]), Sq(p[2])), Sq(ret.val.outer_cylinder[1]))
                /\ RLe(RAbs(p[3]), RHalf(ret.val.outer_cylinder[2]))

(***************************************************************************)
(* make_line                                                               *)
(***************************************************************************)
\* np.linspace(start, stop, num) with endpoint=False: the step is delta / num.
np_linspace_open(start, stop, num) ==
    [k \in 1..num |->
        RAdd(start, RMul(Int2R(k - 1), RDiv(RSub(stop, start), Int2R(num))))]

\* np.linspace(start, stop, num), num >= 0: num samples, y[i] = start + i * step
\* with step = (stop - start) / (num - 1); for num = 1 the one sample is start;
\* for num > 1 the last sample is set to stop.
np_linspace(start, stop, num) ==
    [k \in 1..num |->
        IF num = 1 THEN start
        ELSE IF k = num THEN stop
        ELSE RAdd(start, RMul(Int2R(k - 1), RDiv(RSub(stop, start), Int2R(num - 1))))]

\* scipy.stats.gamma.rvs(a, loc, scale, random_state): one standard_gamma(a)
\* value g of the random state, returned as g * scale + loc.
gamma_rvs(a, loc, scale, g) == RAdd(RMul(g, scale), loc)

\* The noise rate of one module, from the value g its draw delivered.  The call
\* is gamma.rvs(1, 0.25, random_state=rng): the second positional argument of
\* rvs is loc, so that a = 1, loc = 0.25 and scale keeps its default, 1.
noise_rate_of(g, baseline_noise_rate) ==
    RMul(gamma_rvs(ROne, R(1, 4), ROne, g), baseline_noise_rate)

\* make_line; g[i] is the value of the i-th draw of rng.
make_line(x, y, n_z, dist_z, g, baseline_noise_rate, line_id, efficiency) ==
    LET zs == np_linspace(RHalf(RMul(RNeg(dist_z), Int2R(n_z))),
                          RHalf(RMul(dist_z, Int2R(n_z))), n_z)
    IN  [k \in 1..n_z |->
            Module(<<x, y, zs[k]>>, <<line_id, k - 1>>,
                   noise_rate_of(g[k], baseline_noise_rate), efficiency)]

\* Values a standard_gamma(1) draw may deliver (any positive real).
GammaDraws == {R(1, 8), Int2R(3)}

LineArgs ==
    [x : {Int2R(0), Int2R(1)}, y : {Int2R(-1)}, n_z : 0..MaxNz,
     dist_z : {R(k, 2) : k \in -2..(2 * MaxDistZ)},
     baseline_noise_rate : {ROne, R(1, 2)}, line_id : {0, 1},
     efficiency : {R(1, 5)}]

Do_make_line(a) ==
    \E g \in [1..a.n_z -> GammaDraws] :
        /\ fn' = "make_line"
        /\ args' = a
        /\ ret' = Ok(make_line(a.x, a.y, a.n_z, a.dist_z, g, a.baseline_noise_rate,
                               a.line_id, a.efficiency))
        /\ draws' = [k \in 1..a.n_z |-> [kind |-> "standard_gamma", val |-> g[k]]]
        /\ UseRng("make_line", "given", a.n_z)

Call_make_line ==
    fn = "make_line" /\ ret = Pending /\ Do_make_line(args) /\ UNCHANGED ncalls

InitLine == fn = "make_line" /\ args \in LineArgs /\ ret = Pending /\ Fresh

NextLine == Call_make_line

SpecLine == InitLine /\ [][NextLine]_vars

LineDone == fn = "make_line" /\ ret.kind = "ok"

\* The part of C4 that holds for every n_z >= 1 and every dist_z: n_z modules,
\* all at (x, y), with keys (line_id, 0) .. (line_id, n_z - 1) in order.
LineShape ==
    /\ Len(ret.val) = args.n_z
    /\ \A k \in 1..Len(ret.val) :
         /\ ret.val[k].pos[1] = args.x
         /\ ret.val[k].pos[2] = args.y
         /\ ret.val[k].key = <<args.line_id, k - 1>>

LineLow == RHalf(RMul(RNeg(args.dist_z), Int2R(args.n_z)))
LineHigh == RHalf(RMul(args.dist_z, Int2R(args.n_z)))

LineIncreasing ==
    \A k \in 1..(Len(ret.val) - 1) : RLt(ret.val[k].pos[3], ret.val[k + 1].pos[3])

LineSpans ==
    /\ ret.val[1].pos[3] = LineLow
    /\ ret.val[Len(ret.val)].pos[3] = LineHigh

\* C4 (as stated): for every n_z >= 1 and every dist_z, make_line returns n_z
\* modules at (x, y) with keys (line_id, 0..n_z-1), z strictly increasing and
\* spanning exactly [-dist_z*n_z/2, dist_z*n_z/2].
C4_LineAsStated ==
    (LineDone /\ args.n_z >= 1) => (LineShape /\ LineIncreasing /\ LineSpans)

\* C4 (amended): for every n_z >= 1 and every dist_z, make_line returns n_z
\* modules at (x, y) with keys (line_id, 0..n_z-1), the first at
\* z = -dist_z*n_z/2; for n_z >= 2 the last is at z = dist_z*n_z/2, and for
\* n_z >= 2 and dist_z > 0 the z-coordinates are strictly increasing.
C4_LineAmended ==
    (LineDone /\ args.n_z >= 1) =>
        /\ LineShape
        /\ ret.val[1].pos[3] = LineLow
        /\ args.n_z >= 2 => ret.val[Len(ret.val)].pos[3] = LineHigh
        /\ (args.n_z >= 2 /\ RLt(RZero, args.dist_z)) => LineIncreasing

\* A line of three modules with dist_z = 1: z = -3/2, 0, 3/2.
C4_Witness ==
    /\ LineDone
    /\ args.n_z = 3
    /\ args.dist_z = ROne
    /\ ret.val[1].pos[3] = R(-3, 2)
    /\ ret.val[2].pos[3] = RZero
    /\ ret.val[3].pos[3] = R(3, 2)

\* C8: each module's noise rate is baseline_noise_rate times one draw of a
\* Gamma distribution of shape 1, scale 0.25 and location 0 (the value g of
\* the module's standard draw, times 0.25), one draw per module in index order.
C8_GammaScale ==
    LineDone =>
        /\ Len(draws) = args.n_z
        /\ \A k \in 1..Len(ret.val) :
             ret.val[k].noise_rate =
                 RMul(RMul(draws[k].val, R(1, 4)), args.baseline_noise_rate)

(***************************************************************************)
(* Samplers                                                                *)
(***************************************************************************)
\* An angle, given by the point it marks on the unit circle.
Angle(s, c) == [sin |-> s, cos |-> c]
np_sin(a) == a.sin
np_cos(a) == a.cos

\* Values a rng.uniform(0, 2*pi) draw may deliver.
Angles ==
    {Angle(RZero, ROne), Angle(R(3, 5), R(4, 5)), Angle(R(-4, 5), R(-3, 5))}

\* Values u of [0, 1) behind a uniform draw; their square roots are rational.
UnitDraws == {RZero, R(9, 16)}

\* rng.uniform(low, high): low + (high - low) * u for u of [0, 1).
uniform(low, high, u) == RAdd(low, RMul(RSub(high, low), u))

Draw(kind, val) == [kind |-> kind, val |-> val]
Draws(kind, s) == [i \in 1..Len(s) |-> Draw(kind, s[i])]

\* sample_cylinder_volume; theta, u and uz are the three batches of draws.
sample_cylinder_volume(height, radius, n, theta, u, uz) ==
    LET r == [i \in 1..n |-> RMul(radius, np_sqrt(u[i]))]
    IN  [i \in 1..n |->
            <<RMul(r[i], np_sin(theta[i])),
              RMul(r[i], np_cos(theta[i])),
              uniform(RHalf(RNeg(height)), RHalf(height), uz[i])>>]

\* The quotient top_area / (top_area + side_area).  Python floats raise
\* ZeroDivisionError on a zero divisor; numpy scalars give nan (0/0) or inf.
divide(num, den, numpy_args) ==
    IF den # RZero THEN [kind |-> "num", val |-> RDiv(num, den)]
    ELSE IF ~numpy_args THEN [kind |-> "ZeroDivisionError"]
    ELSE IF num = RZero THEN [kind |-> "nan"]
    ELSE [kind |-> "inf"]

\* u < ratio, for a ratio that may be nan or inf.
less_than(u, ratio) ==
    IF ratio.kind = "nan" THEN FALSE
    ELSE IF ratio.kind = "inf" THEN TRUE
    ELSE RLt(u, ratio.val)

\* The areas of sample_cylinder_surface, in units of 2*pi.
side_area_of(height, radius) == RMul(radius, height)
top_area_of(radius) == RSq(radius)

\* The number of indices j <= i with flag[j] = b: the place of point i among
\* the points that samples[is_top] (b true) or samples[~is_top] selects.
Rank(flag, b, i) == Cardinality({j \in 1..i : flag[j] = b})

\* sample_cylinder_surface after the division; is_top from the first batch of
\* draws, theta the second, ur and side the top / bottom points' radius and
\* cap, uz the side points' z.
sample_cylinder_surface(height, radius, n, is_top, theta, ur, side, uz) ==
    [i \in 1..n |->
        IF is_top[i]
        THEN LET k == Rank(is_top, TRUE, i)
                 r == RMul(radius, np_sqrt(ur[k]))
             IN  <<RMul(r, np_sin(theta[i])), RMul(r, np_cos(theta[i])),
                   <<RHalf(RNeg(height)), RHalf(height)>>[side[k]]>>
        ELSE LET k == Rank(is_top, FALSE, i)
             IN  <<RMul(radius, np_sin(theta[i])), RMul(radius, np_cos(theta[i])),
                   uniform(RHalf(RNeg(height)), RHalf(height), uz[k])>>]

Dims == {Int2R(-1), RZero, ROne, Int2R(2)}

CylinderArgs(ns, whichs) ==
    [height : Dims, radius : Dims, n : ns, numpy_args : BOOLEAN, rng : whichs]

Do_sample_cylinder_volume(a) ==
    \E theta \in [1..a.n -> Angles], u \in [1..a.n -> UnitDraws],
       uz \in [1..a.n -> UnitDraws] :
        /\ fn' = "sample_cylinder_volume"
        /\ args' = a
        /\ ret' = Ok(sample_cylinder_volume(a.height, a.radius, a.n, theta, u, uz))
        /\ draws' = Draws("uniform(0,2pi)", theta) \o Draws("uniform(0,1)", u)
                        \o Draws("uniform(-h/2,h/2)", uz)
        /\ UseRng("sample_cylinder_volume", a.rng, 3 * a.n)

Do_sample_cylinder_surface(a) ==
    LET ratio == divide(top_area_of(a.radius),
                        RAdd(top_area_of(a.radius), side_area_of(a.height, a.radius)),
                        a.numpy_args)
    IN  IF ratio.kind = "ZeroDivisionError"
        THEN /\ fn' = "sample_cylinder_surface"
             /\ args' = a
             /\ ret' = Raise("ZeroDivisionError")
             /\ draws' = <<>>
             /\ UseRng("sample_cylinder_surface", a.rng, 0)
        ELSE \E ut \in [1..a.n -> UnitDraws], theta \in [1..a.n -> Angles] :
               LET is_top == [i \in 1..a.n |-> less_than(ut[i], ratio)]
                   n_is_top == ak_sum(is_top)
               IN  \E ur \in [1..n_is_top -> UnitDraws], side \in [1..n_is_top -> {1, 2}],
                      uz \in [1..(a.n - n_is_top) -> UnitDraws] :
                     /\ fn' = "sample_cylinder_surface"
                     /\ args' = a
                     /\ ret' = Ok(sample_cylinder_surface(a.height, a.radius, a.n,
                                                          is_top, theta, ur, side, uz))
                     /\ draws' = Draws("uniform(0,1)", ut) \o Draws("uniform(0,2pi)", theta)
                                   \o Draws("uniform(0,1)", ur) \o Draws("choice", side)
                                   \o Draws("uniform(-h/2,h/2)", uz)
                     /\ UseRng("sample_cylinder_surface", a.rng, 3 * a.n + n_is_top)

Call_sample_cylinder_volume ==
    /\ fn = "sample_cylinder_volume" /\ ret = Pending
    /\ Do_sample_cylinder_volume(args) /\ UNCHANGED ncalls

Call_sample_cylinder_surface ==
    /\ fn = "sample_cylinder_surface" /\ ret = Pending
    /\ Do_sample_cylinder_surface(args) /\ UNCHANGED ncalls

InitCylinder ==
    /\ ret = Pending
    /\ Fresh
    /\ \/ fn = "Detector" /\ args \in [modules : ModuleLists(0..MaxDetModules)]
       \/ fn = "sample_cylinder_surface" /\ args \in CylinderArgs(0..MaxN, {"given"})
       \/ fn = "sample_cylinder_volume" /\ args \in CylinderArgs(0..MaxN, {"given"})

NextCylinder ==
    \/ Call_Detector
    \/ Call_sample_cylinder_surface
    \/ Call_sample_cylinder_volume

SpecCylinder == InitCylinder /\ [][NextCylinder]_vars

IsSampler == fn \in {"sample_cylinder_surface", "sample_cylinder_volume"}

\* The point p lies in the closed cylinder of the call.
InCylinder(p) ==
    /\ RLe(RAdd(RSq(p[1]), RSq(p[2])), RSq(args.radius))
    /\ RLe(RAbs(p[3]), RHalf(args.height))

OnSurface(p) ==
    \/ RAdd(RSq(p[1]), RSq(p[2])) = RSq(args.radius)
    \/ RAbs(p[3]) = RHalf(args.height)

\* C6: for height >= 0, radius >= 0 and n >= 0 both samplers return exactly n
\* points, each within the cylinder; each point of sample_cylinder_surface is
\* on the lateral surface or on a cap.
C6_SamplesInCylinder ==
    (IsSampler /\ ret # Pending /\ RLe(RZero, args.height) /\ RLe(RZero, args.radius)) =>
        /\ ret.kind = "ok"
        /\ Len(ret.val) = args.n
        /\ \A i \in 1..Len(ret.val) :
             /\ InCylinder(ret.val[i])
             /\ fn = "sample_cylinder_surface" => OnSurface(ret.val[i])

\* C7: an empty module list, a negative radius or a negative height raises.
C7_InvalidRaises ==
    /\ (fn = "Detector" /\ ret # Pending /\ args.modules = <<>>) => ret.kind = "raise"
    /\ (IsSampler /\ ret # Pending /\ (RLt(args.height, RZero) \/ RLt(args.radius, RZero)))
          => ret.kind = "raise"

(***************************************************************************)
(* sample_direction                                                        *)
(***************************************************************************)
\* np.arccos(c), -1 <= c <= 1: the angle of [0, pi] whose cosine is c.
np_arccos(c) == Angle(np_sqrt(RSub(ROne, RSq(c))), c)

\* Values u of [0, 1) behind the uniform(-1, 1) draws (the sines stay rational).
DirDraws == {RZero, R(1, 10), R(4, 5)}

\* sample_direction after its draws: cos_theta the batch of n_samples values,
\* phi the one azimuth.
sample_direction(n_samples, cos_theta, phi) ==
    LET theta == [i \in 1..n_samples |-> np_arccos(cos_theta[i])]
    IN  [i \in 1..n_samples |->
            <<RMul(np_sin(theta[i]), np_cos(phi)),
              RMul(np_sin(theta[i]), np_sin(phi)),
              np_cos(theta[i])>>]

\* A variant drawing one azimuth per sample.
Do_sample_direction_phi_each(a) ==
    \E u \in [1..a.n_samples -> DirDraws], phi \in [1..a.n_samples -> Angles] :
        LET cos_theta == [i \in 1..a.n_samples |-> uniform(Int2R(-1), ROne, u[i])]
        IN  /\ fn' = "sample_direction"
            /\ args' = a
            /\ ret' = Ok([i \in 1..a.n_samples |->
                            sample_direction(a.n_samples, cos_theta, phi[i])[i]])
            /\ draws' = Draws("uniform(-1,1)", cos_theta) \o Draws("uniform(0,2pi)", phi)
            /\ UseRng("sample_direction", a.rng, 2 * a.n_samples)

Do_sample_direction(a) ==
    \E u \in [1..a.n_samples -> DirDraws], phi \in Angles :
        LET cos_theta == [i \in 1..a.n_samples |-> uniform(Int2R(-1), ROne, u[i])]
        IN  /\ fn' = "sample_direction"
            /\ args' = a
            /\ ret' = Ok(sample_direction(a.n_samples, cos_theta, phi))
            /\ draws' = Draws("uniform(-1,1)", cos_theta) \o <<Draw("uniform(0,2pi)", phi)>>
            /\ UseRng("sample_direction", a.rng, a.n_samples + 1)

DirectionArgs(ns, whichs) == [n_samples : ns, rng : whichs]

Call_sample_direction ==
    /\ fn = "sample_direction" /\ ret = Pending
    /\ Do_sample_direction(args) /\ UNCHANGED ncalls

InitDirection ==
    /\ fn = "sample_direction"
    /\ args \in DirectionArgs(0..(MaxN + 1), {"given", "default"})
    /\ ret = Pending
    /\ Fresh

NextDirection == Call_sample_direction

SpecDirection == InitDirection /\ [][NextDirection]_vars

DirectionDone == fn = "sample_direction" /\ ret.kind = "ok"

\* C9: sample_direction draws n_samples uniform values for cos_theta, then one
\* uniform value for phi; every returned vector has that azimuth, and the z of
\* vector i is the i-th cos_theta draw.
C9_SharedAzimuth ==
    DirectionDone =>
        LET n == args.n_samples
        IN  /\ Len(draws) = n + 1
            /\ \A i \in 1..n : draws[i].kind = "uniform(-1,1)"
            /\ draws[n + 1].kind = "uniform(0,2pi)"
            /\ Len(ret.val) = n
            /\ \A i \in 1..n :
                 LET v == ret.val[i]
                     rho == np_sqrt(RAdd(RSq(v[1]), RSq(v[2])))
                 IN  /\ v[3] = draws[i].val
                     /\ v[1] = RMul(rho, np_cos(draws[n + 1].val))
                     /\ v[2] = RMul(rho, np_sin(draws[n + 1].val))
            /\ \A i, j \in 1..n :
                 /\ RMul(ret.val[i][1], ret.val[j][2]) = RMul(ret.val[j][1], ret.val[i][2])
                 /\ RLe(RZero, RAdd(RMul(ret.val[i][1], ret.val[j][1]),
                                    RMul(ret.val[i][2], ret.val[j][2])))

\* Two vectors off the z axis with different z and one azimuth.
C9_Witness ==
    /\ DirectionDone
    /\ args.n_samples = 2
    /\ ret.val[1][3] # ret.val[2][3]
    /\ ret.val[1][3] = draws[1].val
    /\ draws[3].val = Angle(R(3, 5), R(4, 5))
    /\ ret.val[1][1] # RZero
    /\ ret.val[2][1] # RZero

(***************************************************************************)
(* generate_noise                                                          *)
(***************************************************************************)
MaxNoiseModules == 2    \* modules of the detectors given to generate_noise

\* The sequence s, ascending, with v put in its place.
RECURSIVE Insert(_, _)
Insert(v, s) ==
    IF s = <<>> THEN <<v>>
    ELSE IF RLe(v, s[1]) THEN <<v>> \o s
    ELSE <<s[1]>> \o Insert(v, Tail(s))

RECURSIVE SortSeq(_)
SortSeq(s) == IF s = <<>> THEN <<>> ELSE Insert(s[1], SortSeq(Tail(s)))

RECURSIVE Flatten(_)
Flatten(rows) == IF rows = <<>> THEN <<>> ELSE rows[1] \o Flatten(Tail(rows))

\* The number of values in the rows before row i.
RECURSIVE Offset(_, _)
Offset(rows, i) == IF i = 1 THEN 0 ELSE Offset(rows, i - 1) + Len(rows[i - 1])

\* A sort of all the values together, cut again into rows of the same lengths.
ak_sort_flat(rows) ==
    LET all == SortSeq(Flatten(rows))
    IN  [i \in 1..Len(rows) |->
            SubSeq(all, Offset(rows, i) + 1, Offset(rows, i) + Len(rows[i]))]

\* ak.sort(array), axis=-1, ascending: each row sorted on its own.
ak_sort(rows) == [i \in 1..Len(rows) |-> SortSeq(rows[i])]

\* The mean of the Poisson draw of module idom.
noise_lam(det, time_range, idom) ==
    LET dT == RSub(time_range[2], time_range[1])
    IN  RMul(det.modules[idom].noise_rate, dT)

\* generate_noise after its draws: u[idom] holds the noise_amp values of [0, 1)
\* behind module idom's uniform draws.
generate_noise(det, time_range, u) ==
    LET all_times_det ==
            [idom \in 1..Len(det.modules) |->
                [j \in 1..Len(u[idom]) |->
                    uniform(time_range[1], time_range[2], u[idom][j])]]
    IN  ak_sort(all_times_det)

\* The draws of one module: its Poisson count, then its hit times.
ModuleDraws(time_range, row) ==
    <<Draw("poisson", Len(row))>>
        \o [j \in 1..Len(row) |->
               Draw("uniform(t0,t1)", uniform(time_range[1], time_range[2], row[j]))]

\* Rows of values of [0, 1) a module may draw: none when the Poisson mean is 0.
HitRows(lam) ==
    IF lam = RZero THEN {<<>>}
    ELSE UNION {[1..k -> UnitDraws] : k \in 0..MaxHits}

\* rng.poisson raises ValueError on a negative mean: the loop stops at the
\* first such module, after the draws of the modules before it.
Do_generate_noise(a) ==
    LET n == Len(a.det.modules)
        bad == {i \in 1..n : RLt(noise_lam(a.det, a.time_range, i), RZero)}
        last == IF bad = {} THEN n ELSE (CHOOSE i \in bad : \A j \in bad : i <= j) - 1
    IN  \E u \in [1..last -> UNION {HitRows(l) : l \in {RZero, ROne}}] :
          /\ \A i \in 1..last : u[i] \in HitRows(noise_lam(a.det, a.time_range, i))
          /\ fn' = "generate_noise"
          /\ args' = a
          /\ ret' = IF bad = {} THEN Ok(generate_noise(a.det, a.time_range, u))
                    ELSE Raise("ValueError")
          /\ draws' = Flatten([i \in 1..last |-> ModuleDraws(a.time_range, u[i])])
          /\ UseRng("generate_noise", a.rng, Len(draws'))

NoiseRates == {RZero, R(1, 2)}

NoiseDetectors(ms) ==
    UNION {{Detector_init([i \in 1..m |->
                Module(<<RZero, RZero, Int2R(i)>>, <<0, i - 1>>, rate[i], R(1, 5))]).val :
              rate \in [1..m -> NoiseRates]} : m \in ms}

TimeRanges ==
    {<<RZero, RZero>>, <<Int2R(-1), Int2R(3)>>, <<RZero, Int2R(2)>>, <<Int2R(2), RZero>>}

NoiseArgs(ms, ranges, whichs) ==
    [det : NoiseDetectors(ms), time_range : ranges, rng : whichs]

Call_generate_noise ==
    /\ fn = "generate_noise" /\ ret = Pending
    /\ Do_generate_noise(args) /\ UNCHANGED ncalls

InitNoise ==
    /\ fn = "generate_noise"
    /\ args \in NoiseArgs(1..MaxNoiseModules, TimeRanges, {"given"})
    /\ ret = Pending
    /\ Fresh

NextNoise == Call_generate_noise

SpecNoise == InitNoise /\ [][NextNoise]_vars

\* The hit times the call drew for each module, read off the draws in order.
RECURSIVE DrawnRows(_)
DrawnRows(d) ==
    IF d = <<>> THEN <<>>
    ELSE <<[j \in 1..d[1].val |-> d[j + 1].val]>>
             \o DrawnRows(SubSeq(d, d[1].val + 2, Len(d)))

Count(s, v) == Cardinality({j \in 1..Len(s) : s[j] = v})

SameValues(s, t) ==
    /\ Len(s) = Len(t)
    /\ \A j \in 1..Len(s) : Count(s, s[j]) = Count(t, s[j])

NoisePre ==
    /\ fn = "generate_noise"
    /\ ret # Pending
    /\ \A i \in 1..Len(args.det.modules) : RLe(RZero, args.det.modules[i].noise_rate)
    /\ RLe(args.time_range[1], args.time_range[2])

\* C5: for non-negative noise rates and t0 <= t1, generate_noise returns one
\* hit-time sequence per module, in module order; each is the module's own
\* draws sorted ascending, every time lies in [t0, t1], and a module whose
\* Poisson draw is 0 (every module when all rates are 0) has an empty sequence.
C5_NoisePerModule ==
    NoisePre =>
        /\ ret.kind = "ok"
        /\ Len(ret.val) = Len(args.det.modules)
        /\ Len(DrawnRows(draws)) = Len(ret.val)
        /\ \A i \in 1..Len(ret.val) :
             LET row == ret.val[i]
                 drawn == DrawnRows(draws)[i]
             IN  /\ SameValues(row, drawn)
                 /\ \A j \in 1..(Len(row) - 1) : RLe(row[j], row[j + 1])
                 /\ \A j \in 1..Len(row) :
                      RLe(args.time_range[1], row[j]) /\ RLe(row[j], args.time_range[2])
                 /\ args.det.modules[i].noise_rate = RZero => row = <<>>
        /\ \A k \in 1..Len(draws) :
             (draws[k].kind = "poisson" /\ draws[k].val = 0) =>
                 ret.val[Cardinality({j \in 1..k : draws[j].kind = "poisson"})] = <<>>

\* Two modules: the first drew two hits out of order, the later one after the
\* hit of the second; each row comes back sorted on its own.
C5_Witness ==
    /\ NoisePre
    /\ ret.kind = "ok"
    /\ Len(ret.val) = 2
    /\ Len(ret.val[1]) = 2
    /\ Len(ret.val[2]) = 1
    /\ RLt(draws[3].val, draws[2].val)
    /\ RLt(ret.val[2][1], ret.val[1][2])
    /\ RLt(ret.val[1][1], ret.val[1][2])

(***************************************************************************)
(* make_triang                                                             *)
(***************************************************************************)
\* make_triang after its draws: g holds the 3 * oms_per_line values the three
\* calls of make_line draw from the one rng, in order.
make_triang(side_len, oms_per_line, dist_z, dark_noise_rate, g, efficiency) ==
    LET height == np_sqrt(RSub(RSq(side_len), RSq(RHalf(side_len))))
        line(k) == SubSeq(g, k * oms_per_line + 1, (k + 1) * oms_per_line)
        modules ==
            make_line(RHalf(RNeg(side_len)), Over(Neg(height), Int2R(3)), oms_per_line,
                      dist_z, line(0), dark_noise_rate, 0, efficiency)
            \o make_line(RHalf(side_len), Over(Neg(height), Int2R(3)), oms_per_line,
                         dist_z, line(1), dark_noise_rate, 1, efficiency)
            \o make_line(RZero, Scale(height, R(2, 3)), oms_per_line,
                         dist_z, line(2), dark_noise_rate, 2, efficiency)
    IN  Detector_init(modules)

Do_make_triang(a) ==
    \E g \in [1..(3 * a.oms_per_line) -> GammaDraws] :
        /\ fn' = "make_triang"
        /\ args' = a
        /\ ret' = make_triang(a.side_len, a.oms_per_line, a.dist_z, a.dark_noise_rate,
                              g, a.efficiency)
        /\ draws' = Draws("standard_gamma", g)
        /\ UseRng("make_triang", a.rng, 3 * a.oms_per_line)

(***************************************************************************)
(* Sequences of calls with the rng argument omitted (sample_direction is   *)
(* also called with a RandomState of the caller's).                        *)
(***************************************************************************)
Whichs == {"default", "given"}

TriangArgs ==
    [side_len : {Int2R(2)}, oms_per_line : {0, 1}, dist_z : {Int2R(50)},
     dark_noise_rate : {R(16, 100000)}, efficiency : {R(1, 2)}, rng : {"default"}]

SmallCylinderArgs ==
    [height : {ROne}, radius : {ROne}, n : {0, 1}, numpy_args : {FALSE},
     rng : {"default"}]

Hist_make_triang ==
    /\ ncalls < MaxCalls
    /\ \E a \in TriangArgs : Do_make_triang(a)
    /\ ncalls' = ncalls + 1

Hist_sample_cylinder_surface ==
    /\ ncalls < MaxCalls
    /\ \E a \in SmallCylinderArgs : Do_sample_cylinder_surface(a)
    /\ ncalls' = ncalls + 1

Hist_sample_cylinder_volume ==
    /\ ncalls < MaxCalls
    /\ \E a \in SmallCylinderArgs : Do_sample_cylinder_volume(a)
    /\ ncalls' = ncalls + 1

Hist_sample_direction ==
    /\ ncalls < MaxCalls
    /\ \E a \in DirectionArgs({0, 1}, Whichs) : Do_sample_direction(a)
    /\ ncalls' = ncalls + 1

Hist_generate_noise ==
    /\ ncalls < MaxCalls
    /\ \E a \in NoiseArgs({1}, {<<Int2R(-1), Int2R(3)>>, <<Int2R(2), RZero>>}, {"default"}) : Do_generate_noise(a)
    /\ ncalls' = ncalls + 1

InitDefaults ==
    /\ fn = "none"
    /\ args = [rng |-> "none"]
    /\ ret = [kind |-> "none", val |-> "none"]
    /\ Fresh

NextDefaults ==
    \/ Hist_make_triang
    \/ Hist_sample_cylinder_surface
    \/ Hist_sample_cylinder_volume
    \/ Hist_sample_direction
    \/ Hist_generate_noise

SpecDefaults == InitDefaults /\ [][NextDefaults]_vars

\* C10: a call of f with rng omitted starts to draw where f's previous such
\* call stopped, leaves f's default source behind the values it drew, and
\* moves the default source of no other function.
C10_DefaultRngPersists ==
    [][\A f \in DefaultFns :
          (ncalls' = ncalls + 1 /\ fn' = f /\ args'.rng = "default") =>
              /\ first_pos' = default_rng[f]
              /\ default_rng'[f] = default_rng[f] + Len(draws')
              /\ \A h \in DefaultFns \ {f} : default_rng'[h] = default_rng[h]]_vars

\* A second call with rng omitted that started past the seed, while another
\* function's default source is still at its seed.
C10_Witness ==
    /\ ncalls = 2
    /\ fn = "sample_direction"
    /\ args.rng = "default"
    /\ first_pos = 2
    /\ Len(draws) = 2
    /\ default_rng["sample_direction"] = 4
    /\ default_rng["sample_cylinder_volume"] = 0

====
